---- MODULE Spec2Model ----
(***************************************************************************)
(* AWS Signature Version 4 presigner (src/src/presigner.rs, util.rs).      *)
(*                                                                         *)
(* Strings are sequences of byte values, so that the byte-wise ordering    *)
(* of Rust's String and the byte-wise percent-encoding are computed as the *)
(* code computes them.  SHA-256 and HMAC-SHA256 are modelled as injective  *)
(* constructors; a hex-encoded digest embedded at the end of a formatted   *)
(* string is kept as the symbolic tail of that string.                     *)
(***************************************************************************)
EXTENDS Integers, Sequences, FiniteSets, TLC

VARIABLES
    request,               \* PresignerRequest given to presign
    params,                \* SigningParams given to presign
    credentials,           \* SigningCredentials given to presign
    pc,                    \* position inside presign
    encoded_path,          \* presign: let mut encoded_path
    credential_scope,      \* presign: let credential_scope
    presign_query_params,  \* presign: let presign_query_params
    cqs,                   \* presign: let canonical_query_string
    canonical_request,     \* presign: let canonical_request
    string_to_sign,        \* presign: let string_to_sign
    k_signing,             \* presign: let k_signing
    url,                   \* presign: the returned url
    hdr_cur,               \* last header canonicalization (input and outputs)
    hdr_prev,              \* the header canonicalization before it
    key_cur,               \* last derive_signing_key call (input and output)
    key_prev,              \* the derive_signing_key call before it
    enc_cur                \* last urlencode_path / urlencode_param call

vars == <<request, params, credentials, pc, encoded_path, credential_scope,
          presign_query_params, cqs, canonical_request, string_to_sign,
          k_signing, url, hdr_cur, hdr_prev, key_cur, key_prev, enc_cur>>

presign_vars == <<request, params, credentials, pc, encoded_path,
                  credential_scope, presign_query_params, cqs,
                  canonical_request, string_to_sign, k_signing, url>>

(***************************************************************************)
(* Bounds of the model.                                                    *)
(***************************************************************************)
MaxPairs == 2        \* query pairs in the request URL
MaxHeaderInserts == 2 \* insertions used to build a header map
MaxEncLen == 2       \* length of multi-byte inputs of the encoders

(***************************************************************************)
(* String literals, as bytes.                                              *)
(***************************************************************************)
\* "AWS4-HMAC-SHA256"
ALGORITHM == <<65, 87, 83, 52, 45, 72, 77, 65, 67, 45, 83, 72, 65, 50, 53, 54>>
\* "X-Amz-Algorithm"
X_AMZ_ALGORITHM == <<88, 45, 65, 109, 122, 45, 65, 108, 103, 111, 114, 105, 116, 104, 109>>
\* "X-Amz-Credential"
X_AMZ_CREDENTIAL == <<88, 45, 65, 109, 122, 45, 67, 114, 101, 100, 101, 110, 116, 105, 97, 108>>
\* "X-Amz-Date"
X_AMZ_DATE == <<88, 45, 65, 109, 122, 45, 68, 97, 116, 101>>
\* "X-Amz-Expires"
X_AMZ_EXPIRES == <<88, 45, 65, 109, 122, 45, 69, 120, 112, 105, 114, 101, 115>>
\* "X-Amz-SignedHeaders"
X_AMZ_SIGNEDHEADERS == <<88, 45, 65, 109, 122, 45, 83, 105, 103, 110, 101, 100, 72, 101, 97, 100, 101, 114, 115>>
\* "X-Amz-Security-Token"
X_AMZ_SECURITY_TOKEN == <<88, 45, 65, 109, 122, 45, 83, 101, 99, 117, 114, 105, 116, 121, 45, 84, 111, 107, 101, 110>>
\* "X-Amz-Signature"
X_AMZ_SIGNATURE == <<88, 45, 65, 109, 122, 45, 83, 105, 103, 110, 97, 116, 117, 114, 101>>
\* "&X-Amz-Signature="
AMP_X_AMZ_SIGNATURE_EQ == <<38>> \o X_AMZ_SIGNATURE \o <<61>>
\* "AWS4"
AWS4 == <<65, 87, 83, 52>>
\* "aws4_request"
AWS4_REQUEST == <<97, 119, 115, 52, 95, 114, 101, 113, 117, 101, 115, 116>>

(***************************************************************************)
(* Generic sequence helpers.                                               *)
(***************************************************************************)
RECURSIVE SetToSeq(_)
SetToSeq(S) ==
    IF S = {} THEN <<>>
    ELSE LET x == CHOOSE y \in S : TRUE IN <<x>> \o SetToSeq(S \ {x})

RECURSIVE Concat(_)
\* concatenation of a sequence of strings
Concat(ss) == IF ss = <<>> THEN <<>> ELSE Head(ss) \o Concat(Tail(ss))

RECURSIVE join(_, _)
\* [String]::join(sep)
join(ss, sep) ==
    IF ss = <<>> THEN <<>>
    ELSE IF Len(ss) = 1 THEN ss[1]
    ELSE ss[1] \o sep \o join(Tail(ss), sep)

RECURSIVE StrLess(_, _)
\* Ord for String: lexicographic order of the bytes
StrLess(a, b) ==
    IF b = <<>> THEN FALSE
    ELSE IF a = <<>> THEN TRUE
    ELSE IF a[1] # b[1] THEN a[1] < b[1]
    ELSE StrLess(Tail(a), Tail(b))

RECURSIVE InsertSorted(_, _)
InsertSorted(s, x) ==
    IF s = <<>> THEN <<x>>
    ELSE IF StrLess(x, s[1]) THEN <<x>> \o s
    ELSE <<s[1]>> \o InsertSorted(Tail(s), x)

RECURSIVE sort(_)
\* Vec<String>::sort
sort(s) ==
    IF s = <<>> THEN <<>>
    ELSE InsertSorted(sort(SubSeq(s, 1, Len(s) - 1)), s[Len(s)])

(***************************************************************************)
(* BTreeMap<String, Vec<String>>: a function from keys to value lists,     *)
(* iterated in ascending key order.                                        *)
(***************************************************************************)
BTreeNew == [k \in {} |-> <<>>]

\* fault: insert adds to the values of an existing key instead of replacing them
BTreeInsert_append(m, k, v) ==
    [x \in DOMAIN m \cup {k} |->
        IF x = k THEN (IF k \in DOMAIN m THEN m[k] \o v ELSE v) ELSE m[x]]

\* BTreeMap::insert: replaces the value of an existing key
BTreeInsert(m, k, v) == [x \in DOMAIN m \cup {k} |-> IF x = k THEN v ELSE m[x]]

\* entry(k).or_default().push(v)
BTreeEntryPush(m, k, v) ==
    [x \in DOMAIN m \cup {k} |->
        IF x = k THEN (IF k \in DOMAIN m THEN Append(m[k], v) ELSE <<v>>)
        ELSE m[x]]

\* BTreeMap::keys / iteration order
BTreeKeys(m) == sort(SetToSeq(DOMAIN m))

(***************************************************************************)
(* util.rs                                                                 *)
(***************************************************************************)
IsAlphanumeric(b) == b \in (48..57) \cup (65..90) \cup (97..122)

\* percent_encoding::NON_ALPHANUMERIC: every ASCII byte that is no letter or digit
NON_ALPHANUMERIC == {b \in 0..127 : ~IsAlphanumeric(b)}

\* the set without - . _ ~ /
URLENCODE_PATH == NON_ALPHANUMERIC \ {45, 46, 95, 126, 47}

\* fault: '/' taken out of the parameter set too, as in the path set
URLENCODE_PARAM_slash_safe == NON_ALPHANUMERIC \ {45, 46, 95, 126, 47}

\* the set without - . _ ~
URLENCODE_PARAM == NON_ALPHANUMERIC \ {45, 46, 95, 126}

\* one upper-case hexadecimal digit
HexDigit(n) == IF n < 10 THEN 48 + n ELSE 55 + n

RECURSIVE percent_encode(_, _)
\* percent_encoding::percent_encode: a byte of the set, or a non-ASCII byte,
\* becomes %XX; every other byte is copied
percent_encode(data, set) ==
    IF data = <<>> THEN <<>>
    ELSE LET b == data[1] IN
         (IF b > 127 \/ b \in set
             THEN <<37, HexDigit(b \div 16), HexDigit(b % 16)>>
             ELSE <<b>>)
         \o percent_encode(Tail(data), set)

urlencode_path(data) == percent_encode(data, URLENCODE_PATH)

urlencode_param(data) == percent_encode(data, URLENCODE_PARAM)

\* SHA-256, injective
hash(data) == [sha256 |-> data]

\* HMAC-SHA256, injective in key and message
hmac(key, value) == [hmac_key |-> key, hmac_msg |-> value]

\* hex::encode of a digest, injective
hex_encode(data) == [hex |-> data]

sign(signing_key, sts) == hex_encode(hmac(signing_key, sts))

RECURSIVE Decimal(_)
\* format!("{}", n) of an unsigned integer
Decimal(n) == IF n < 10 THEN <<48 + n>> ELSE Decimal(n \div 10) \o <<48 + (n % 10)>>

RECURSIVE ZeroPad(_, _)
\* an unsigned integer in exactly w decimal digits (chrono %Y %m %d %H %M %S)
ZeroPad(n, w) == IF w = 0 THEN <<>> ELSE ZeroPad(n \div 10, w - 1) \o <<48 + (n % 10)>>

\* date.format("%Y%m%d")
to_date_string(date) ==
    ZeroPad(date.year, 4) \o ZeroPad(date.month, 2) \o ZeroPad(date.day, 2)

\* date.format("%Y%m%dT%H%M%SZ")
to_timestamp_string(date) ==
    to_date_string(date) \o <<84>> \o ZeroPad(date.hour, 2)
        \o ZeroPad(date.minute, 2) \o ZeroPad(date.second, 2) \o <<90>>

(***************************************************************************)
(* presigner.rs                                                            *)
(***************************************************************************)
\* str::to_lowercase, on ASCII
to_lowercase(s) == [i \in 1..Len(s) |-> IF s[i] \in 65..90 THEN s[i] + 32 ELSE s[i]]

\* .iter().map(|v| to_lowercase(v)).collect()
LowercaseAll(ss) == [i \in 1..Len(ss) |-> to_lowercase(ss[i])]

\* .iter().map(|v| urlencode_param(v)).collect()
EncodeAll(ss) == [i \in 1..Len(ss) |-> urlencode_param(ss[i])]

\* fault: the key is derived from the full timestamp instead of the date
derive_signing_key_timestamp(secret_access_key, timestamp, region, service_name) ==
    LET k_secret == AWS4 \o secret_access_key
        k_date == hmac(k_secret, to_timestamp_string(timestamp))
        k_region == hmac(k_date, region)
        k_service == hmac(k_region, service_name)
    IN  hmac(k_service, AWS4_REQUEST)

derive_signing_key(secret_access_key, timestamp, region, service_name) ==
    LET k_secret == AWS4 \o secret_access_key
        date_string == to_date_string(timestamp)
        k_date == hmac(k_secret, date_string)
        k_region == hmac(k_date, region)
        k_service == hmac(k_region, service_name)
    IN  hmac(k_service, AWS4_REQUEST)

build_credential_scope(date, region, service_name) ==
    to_date_string(date) \o <<47>> \o region \o <<47>> \o service_name
        \o <<47>> \o AWS4_REQUEST

signed_headers(headers) ==
    LET names == sort(LowercaseAll(BTreeKeys(headers)))
    IN  join(names, <<59>>)

RECURSIVE HeaderLines(_, _)
\* the loop of canonical_headers over the map's entries, in the map's order
HeaderLines(headers, keys) ==
    IF keys = <<>> THEN <<>>
    ELSE LET key == keys[1]
             value == join(headers[key], <<44>>)
             lc_key == to_lowercase(key)
         IN  lc_key \o <<58>> \o value \o <<10>> \o HeaderLines(headers, Tail(keys))

canonical_headers(headers) == HeaderLines(headers, BTreeKeys(headers))

RECURSIVE QueryPairsFold(_, _)
\* request.url.query_pairs().for_each(|(key, value)| entry(key).or_default().push(value))
QueryPairsFold(m, pairs) ==
    IF pairs = <<>> THEN m
    ELSE QueryPairsFold(BTreeEntryPush(m, pairs[1][1], pairs[1][2]), Tail(pairs))

\* fault: an absent session token is emitted as an empty X-Amz-Security-Token
build_presign_query_params_empty_token(req, prm, scope, access_key_id, session_token) ==
    LET p0 == QueryPairsFold(BTreeNew, req.url.query_pairs)
        p1 == BTreeInsert(p0, X_AMZ_ALGORITHM, <<ALGORITHM>>)
        p2 == BTreeInsert(p1, X_AMZ_CREDENTIAL, <<access_key_id \o <<47>> \o scope>>)
        p3 == BTreeInsert(p2, X_AMZ_DATE, <<to_timestamp_string(prm.timestamp)>>)
        p4 == BTreeInsert(p3, X_AMZ_EXPIRES, <<Decimal(prm.expiry)>>)
        p5 == BTreeInsert(p4, X_AMZ_SIGNEDHEADERS, <<signed_headers(req.headers)>>)
    IN  BTreeInsert(p5, X_AMZ_SECURITY_TOKEN,
                    <<IF session_token # <<>> THEN session_token[1] ELSE <<>> >>)

build_presign_query_params(req, prm, scope, access_key_id, session_token) ==
    LET p0 == QueryPairsFold(BTreeNew, req.url.query_pairs)
        timestamp_string == to_timestamp_string(prm.timestamp)
        p1 == BTreeInsert(p0, X_AMZ_ALGORITHM, <<ALGORITHM>>)
        p2 == BTreeInsert(p1, X_AMZ_CREDENTIAL, <<access_key_id \o <<47>> \o scope>>)
        p3 == BTreeInsert(p2, X_AMZ_DATE, <<timestamp_string>>)
        p4 == BTreeInsert(p3, X_AMZ_EXPIRES, <<Decimal(prm.expiry)>>)
        p5 == BTreeInsert(p4, X_AMZ_SIGNEDHEADERS, <<signed_headers(req.headers)>>)
    IN  IF session_token # <<>>
           THEN BTreeInsert(p5, X_AMZ_SECURITY_TOKEN, <<session_token[1]>>)
           ELSE p5

RECURSIVE PushValues(_, _, _)
\* the inner loop of canonical_query_string
PushValues(qs, key, values) ==
    IF values = <<>> THEN qs
    ELSE PushValues((IF qs # <<>> THEN qs \o <<38>> ELSE qs) \o key \o <<61>> \o values[1],
                    key, Tail(values))

RECURSIVE QueryLoop(_, _, _)
\* the outer loop of canonical_query_string: params.get(&key).unwrap() looks the
\* ENCODED key up in the map and panics when the map has no such key
QueryLoop(p, keys, qs) ==
    IF keys = <<>> THEN [panicked |-> FALSE, qs |-> qs]
    ELSE IF keys[1] \notin DOMAIN p THEN [panicked |-> TRUE, qs |-> <<>>]
    ELSE QueryLoop(p, Tail(keys), PushValues(qs, keys[1], sort(EncodeAll(p[keys[1]]))))

canonical_query_string(p) ==
    LET keys == sort(EncodeAll(BTreeKeys(p)))
    IN  QueryLoop(p, keys, <<>>)

\* fault: the path is encoded again whatever the flag
presign_encoded_path_always(req, prm) == urlencode_path(req.url.path)

\* presign, lines 37-40
presign_encoded_path(req, prm) ==
    IF prm.double_encode_url THEN urlencode_path(req.url.path) ELSE req.url.path

\* presign, lines 53-64
presign_canonical_request(req, path, query) ==
    [text   |-> req.request_method \o <<10>> \o path \o <<10>> \o query \o <<10>>
                  \o canonical_headers(req.headers) \o <<10>>
                  \o signed_headers(req.headers) \o <<10>>,
     digest |-> hex_encode(hash(req.payload))]

\* presign, lines 66-72
presign_string_to_sign(prm, scope, creq) ==
    [text   |-> ALGORITHM \o <<10>> \o to_timestamp_string(prm.timestamp) \o <<10>>
                  \o scope \o <<10>>,
     digest |-> hex_encode(hash(creq))]

\* fault: the URL is returned without the X-Amz-Signature parameter
presign_url_unsigned(req, query, signature) ==
    LET host == IF req.url.host # <<>> THEN req.url.host[1] ELSE <<>>
        host_and_port == IF req.url.port # <<>>
                            THEN host \o <<58>> \o Decimal(req.url.port[1])
                            ELSE host
    IN  [text      |-> req.url.scheme \o <<58, 47, 47>> \o host_and_port \o req.url.path
                         \o <<63>> \o query,
         signature |-> signature]

\* presign, lines 82-96
presign_url(req, query, signature) ==
    LET host == IF req.url.host # <<>> THEN req.url.host[1] ELSE <<>>
        host_and_port == IF req.url.port # <<>>
                            THEN host \o <<58>> \o Decimal(req.url.port[1])
                            ELSE host
    IN  [text      |-> req.url.scheme \o <<58, 47, 47>> \o host_and_port \o req.url.path
                         \o <<63>> \o query \o AMP_X_AMZ_SIGNATURE_EQ,
         signature |-> signature]

(***************************************************************************)
(* Inputs.                                                                 *)
(***************************************************************************)
\* Option<T>: <<>> is None, <<x>> is Some(x)
None == <<>>
Some(x) == <<x>>

\* a variable that holds no value yet
Null == [none |-> TRUE]

\* sequences over S of length 0..n
SeqsUpTo(S, n) == UNION {[1..k -> S] : k \in 0..n}

\* decoded (name, value) pairs of url.query_pairs():
\* a=1, a=x/y, "a b"=1, X-Amz-Date=1, X-Amz-Security-Token=1, X-Amz-Signature=1
QueryPairs ==
    {<<(<<97>>), (<<49>>)>>,
     <<(<<97>>), (<<120, 47, 121>>)>>,
     <<(<<97, 32, 98>>), (<<49>>)>>,
     <<X_AMZ_DATE, (<<49>>)>>,
     <<X_AMZ_SECURITY_TOKEN, (<<49>>)>>,
     <<X_AMZ_SIGNATURE, (<<49>>)>>}

\* paths of the request URL: "/", "/a%20b/c"
Paths == {<<47>>, <<47, 97, 37, 50, 48, 98, 47, 99>>}

\* scheme, host and port of the request URL: http://db:5432, http://db, file://
Origins ==
    {[scheme |-> <<104, 116, 116, 112>>, host |-> Some(<<100, 98>>), port |-> Some(5432)],
     [scheme |-> <<104, 116, 116, 112>>, host |-> Some(<<100, 98>>), port |-> None],
     [scheme |-> <<102, 105, 108, 101>>, host |-> None, port |-> None]}

Urls ==
    {[scheme |-> o.scheme, host |-> o.host, port |-> o.port, path |-> p, query_pairs |-> q] :
        o \in Origins, p \in Paths, q \in SeqsUpTo(QueryPairs, MaxPairs)}

\* header maps of the request: none; Host: db   accept: a,b
RequestHeaders ==
    {BTreeNew,
     BTreeInsert(BTreeInsert(BTreeNew, <<72, 111, 115, 116>>, <<(<<100, 98>>)>>),
                 <<97, 99, 99, 101, 112, 116>>, <<(<<97>>), (<<98>>)>>)}

\* "GET", empty payload
Requests ==
    {[request_method |-> <<71, 69, 84>>, url |-> u, headers |-> h, payload |-> <<>>] :
        u \in Urls, h \in RequestHeaders}

\* 2015-08-30 12:36:00, 2015-08-30 23:59:59, 2015-08-31 12:36:00
Timestamps ==
    {[year |-> 2015, month |-> 8, day |-> 30, hour |-> 12, minute |-> 36, second |-> 0],
     [year |-> 2015, month |-> 8, day |-> 30, hour |-> 23, minute |-> 59, second |-> 59],
     [year |-> 2015, month |-> 8, day |-> 31, hour |-> 12, minute |-> 36, second |-> 0]}

\* "us-east-1", "us-west-2"
Regions == {<<117, 115, 45, 101, 97, 115, 116, 45, 49>>, <<117, 115, 45, 119, 101, 115, 116, 45, 50>>}

\* "rds-db", "iam"
Services == {<<114, 100, 115, 45, 100, 98>>, <<105, 97, 109>>}

\* "secret", "other"
Secrets == {<<115, 101, 99, 114, 101, 116>>, <<111, 116, 104, 101, 114>>}

\* SigningParams of presign: us-east-1, rds-db, 900 s, 2015-08-30 12:36:00
SigningParamsSet ==
    {[double_encode_url |-> d,
      region |-> <<117, 115, 45, 101, 97, 115, 116, 45, 49>>,
      service_name |-> <<114, 100, 115, 45, 100, 98>>,
      expiry |-> 900,
      timestamp |-> [year |-> 2015, month |-> 8, day |-> 30,
                     hour |-> 12, minute |-> 36, second |-> 0]] : d \in BOOLEAN}

\* session tokens: absent, empty, "t/k"
SessionTokens == {None, Some(<<>>), Some(<<116, 47, 107>>)}

\* access key id "AKID", secret "secret"
CredentialsSet ==
    {[access_key_id |-> <<65, 75, 73, 68>>,
      secret_access_key |-> <<115, 101, 99, 114, 101, 116>>,
      session_token |-> t] : t \in SessionTokens}

(***************************************************************************)
(* presign as a sequence of steps.                                         *)
(***************************************************************************)
IdleCalls ==
    /\ hdr_cur = Null /\ hdr_prev = Null
    /\ key_cur = Null /\ key_prev = Null
    /\ enc_cur = Null

IdlePresign ==
    /\ request = Null /\ params = Null /\ credentials = Null
    /\ pc = "idle"
    /\ encoded_path = <<>> /\ credential_scope = <<>>
    /\ presign_query_params = BTreeNew /\ cqs = <<>>
    /\ canonical_request = Null /\ string_to_sign = Null
    /\ k_signing = Null /\ url = Null

Init ==
    /\ request \in Requests
    /\ params \in SigningParamsSet
    /\ credentials \in CredentialsSet
    /\ pc = "start"
    /\ encoded_path = <<>> /\ credential_scope = <<>>
    /\ presign_query_params = BTreeNew /\ cqs = <<>>
    /\ canonical_request = Null /\ string_to_sign = Null
    /\ k_signing = Null /\ url = Null
    /\ IdleCalls

\* presign, lines 37-51
PresignBuild ==
    /\ pc = "start"
    /\ encoded_path' = presign_encoded_path(request, params)
    /\ credential_scope' =
           build_credential_scope(params.timestamp, params.region, params.service_name)
    /\ presign_query_params' =
           build_presign_query_params(request, params, credential_scope',
                                      credentials.access_key_id, credentials.session_token)
    /\ pc' = "canonicalize"
    /\ UNCHANGED <<request, params, credentials, cqs, canonical_request, string_to_sign,
                   k_signing, url, hdr_cur, hdr_prev, key_cur, key_prev, enc_cur>>

\* presign, lines 52-64; the unwrap of canonical_query_string may panic
PresignCanonicalize ==
    /\ pc = "canonicalize"
    /\ LET r == canonical_query_string(presign_query_params) IN
         IF r.panicked
            THEN /\ pc' = "panicked"
                 /\ UNCHANGED <<cqs, canonical_request>>
            ELSE /\ pc' = "sign"
                 /\ cqs' = r.qs
                 /\ canonical_request' =
                        presign_canonical_request(request, encoded_path, r.qs)
    /\ UNCHANGED <<request, params, credentials, encoded_path, credential_scope,
                   presign_query_params, string_to_sign, k_signing, url,
                   hdr_cur, hdr_prev, key_cur, key_prev, enc_cur>>

\* presign, lines 66-79
PresignSign ==
    /\ pc = "sign"
    /\ string_to_sign' = presign_string_to_sign(params, credential_scope, canonical_request)
    /\ k_signing' = derive_signing_key(credentials.secret_access_key, params.timestamp,
                                       params.region, params.service_name)
    /\ pc' = "url"
    /\ UNCHANGED <<request, params, credentials, encoded_path, credential_scope,
                   presign_query_params, cqs, canonical_request, url,
                   hdr_cur, hdr_prev, key_cur, key_prev, enc_cur>>

\* presign, lines 80-98
PresignUrl ==
    /\ pc = "url"
    /\ url' = presign_url(request, cqs, sign(k_signing, string_to_sign))
    /\ pc' = "done"
    /\ UNCHANGED <<request, params, credentials, encoded_path, credential_scope,
                   presign_query_params, cqs, canonical_request, string_to_sign,
                   k_signing, hdr_cur, hdr_prev, key_cur, key_prev, enc_cur>>

Next == PresignBuild \/ PresignCanonicalize \/ PresignSign \/ PresignUrl

Spec == Init /\ [][Next]_vars

(***************************************************************************)
(* Header canonicalization on its own: a caller builds a header map by     *)
(* insertions and has it canonicalized; the last two calls are kept.       *)
(***************************************************************************)
\* header names: "Host", "host", "accept"
HeaderNames == {<<72, 111, 115, 116>>, <<104, 111, 115, 116>>, <<97, 99, 99, 101, 112, 116>>}

\* header value lists: ["h"], ["a", "b"]
HeaderValues == {<<(<<104>>)>>, <<(<<97>>), (<<98>>)>>}

HeaderInserts == SeqsUpTo(HeaderNames \X HeaderValues, MaxHeaderInserts)

RECURSIVE HeadersFromInserts(_, _)
\* let mut headers = BTreeMap::new(); headers.insert(name, values); ...
HeadersFromInserts(m, inserts) ==
    IF inserts = <<>> THEN m
    ELSE HeadersFromInserts(BTreeInsert(m, inserts[1][1], inserts[1][2]), Tail(inserts))

InitHdr == IdlePresign /\ IdleCalls

CanonicalizeHeaders ==
    /\ \E ins \in HeaderInserts :
         LET headers == HeadersFromInserts(BTreeNew, ins) IN
           hdr_cur' = [inserts |-> ins,
                       headers |-> headers,
                       canonical_headers |-> canonical_headers(headers),
                       signed_headers |-> signed_headers(headers)]
    /\ hdr_prev' = hdr_cur
    /\ UNCHANGED <<presign_vars, key_cur, key_prev, enc_cur>>

NextHdr == CanonicalizeHeaders

SpecHdr == InitHdr /\ [][NextHdr]_vars

(***************************************************************************)
(* Key derivation on its own; the last two calls are kept.                 *)
(***************************************************************************)
InitKey == IdlePresign /\ IdleCalls

DeriveSigningKey ==
    /\ \E secret \in Secrets, ts \in Timestamps, region \in Regions, service \in Services :
         key_cur' = [secret_access_key |-> secret,
                     timestamp |-> ts,
                     region |-> region,
                     service_name |-> service,
                     key |-> derive_signing_key(secret, ts, region, service)]
    /\ key_prev' = key_cur
    /\ UNCHANGED <<presign_vars, hdr_cur, hdr_prev, enc_cur>>

NextKey == DeriveSigningKey

SpecKey == InitKey /\ [][NextKey]_vars

(***************************************************************************)
(* The two encoders on the same input.                                     *)
(***************************************************************************)
\* bytes of the longer inputs: '/', 'a', ' ', '%', '~'
EncAlphabet == {47, 97, 32, 37, 126}

\* every single byte, and every string over EncAlphabet up to MaxEncLen
EncInputs == {<<b>> : b \in 0..255} \cup SeqsUpTo(EncAlphabet, MaxEncLen)

InitEnc == IdlePresign /\ IdleCalls

Encode ==
    /\ \E data \in EncInputs :
         enc_cur' = [data |-> data,
                     path |-> urlencode_path(data),
                     param |-> urlencode_param(data)]
    /\ UNCHANGED <<presign_vars, hdr_cur, hdr_prev, key_cur, key_prev>>

NextEnc == Encode

SpecEnc == InitEnc /\ [][NextEnc]_vars

(***************************************************************************)
(* Reading a produced string back: the properties below are stated on the  *)
(* text presign returns, not on the values it was built from.              *)
(***************************************************************************)
\* the positions of the byte sep in s
Positions(s, sep) == {i \in 1..Len(s) : s[i] = sep}

\* the k-th smallest element of a set of numbers
Nth(P, k) == CHOOSE i \in P : Cardinality({j \in P : j < i}) = k - 1

\* the segments of s between occurrences of the byte sep
Split(s, sep) ==
    LET P == Positions(s, sep)
        n == Cardinality(P) + 1
    IN  [k \in 1..n |->
            SubSeq(s, IF k = 1 THEN 1 ELSE Nth(P, k - 1) + 1,
                      IF k = n THEN Len(s) ELSE Nth(P, k) - 1)]

\* s up to, not including, the first occurrence of sep (all of s if there is none)
BeforeFirst(s, sep) ==
    LET P == Positions(s, sep)
    IN  IF P = {} THEN s ELSE SubSeq(s, 1, Nth(P, 1) - 1)

\* s from its first occurrence of sep on (empty if there is none)
FromFirst(s, sep) ==
    LET P == Positions(s, sep)
    IN  IF P = {} THEN <<>> ELSE SubSeq(s, Nth(P, 1), Len(s))

\* s after its first occurrence of sep
AfterFirst(s, sep) == LET r == FromFirst(s, sep) IN IF r = <<>> THEN <<>> ELSE Tail(r)

\* the path of a URL text scheme://authority/path?query
UrlPath(text) ==
    LET afterScheme == AfterFirst(text, 58)                       \* "//authority/path?..."
        afterSlashes == SubSeq(afterScheme, 3, Len(afterScheme))  \* "authority/path?..."
    IN  BeforeFirst(FromFirst(afterSlashes, 47), 63)

\* the entries name=value of the query of a URL text, in order
UrlEntries(text) == Split(AfterFirst(text, 63), 38)

EntryName(e) == BeforeFirst(e, 61)

EntryValue(e) == AfterFirst(e, 61)

\* the entries of the returned URL before the trailing one
UrlCanonicalEntries ==
    LET es == UrlEntries(url.text) IN SubSeq(es, 1, Len(es) - 1)

\* the trailing entry of the returned URL
UrlLastEntry == LET es == UrlEntries(url.text) IN es[Len(es)]

\* the values, in order, of the entries of es named name
RECURSIVE ValuesNamed(_, _)
ValuesNamed(es, name) ==
    IF es = <<>> THEN <<>>
    ELSE (IF EntryName(es[1]) = name THEN <<EntryValue(es[1])>> ELSE <<>>)
         \o ValuesNamed(Tail(es), name)

\* the values, in order, the request's existing query gives to key
RECURSIVE CallerValues(_, _)
CallerValues(pairs, key) ==
    IF pairs = <<>> THEN <<>>
    ELSE (IF pairs[1][1] = key THEN <<pairs[1][2]>> ELSE <<>>)
         \o CallerValues(Tail(pairs), key)

CallerKeys == {request.url.query_pairs[i][1] : i \in 1..Len(request.url.query_pairs)}

\* the five parameters presign always generates
AlwaysGenerated ==
    {X_AMZ_ALGORITHM, X_AMZ_CREDENTIAL, X_AMZ_DATE, X_AMZ_EXPIRES, X_AMZ_SIGNEDHEADERS}

\* the parameters presign generates for these credentials
Generated ==
    AlwaysGenerated \cup
        (IF credentials.session_token # None THEN {X_AMZ_SECURITY_TOKEN} ELSE {})

\* the value list presign generates for a key
GeneratedValues(key) ==
    IF key = X_AMZ_ALGORITHM THEN <<ALGORITHM>>
    ELSE IF key = X_AMZ_CREDENTIAL
        THEN <<credentials.access_key_id \o <<47>> \o credential_scope>>
    ELSE IF key = X_AMZ_DATE THEN <<to_timestamp_string(params.timestamp)>>
    ELSE IF key = X_AMZ_EXPIRES THEN <<Decimal(params.expiry)>>
    ELSE IF key = X_AMZ_SIGNEDHEADERS THEN <<signed_headers(request.headers)>>
    ELSE credentials.session_token    \* X-Amz-Security-Token: none or one value

\* entries are in ascending order of name and, for equal names, of value
EntriesSorted(es) ==
    \A i \in 1..Len(es), j \in 1..Len(es) :
        i < j =>
            \/ StrLess(EntryName(es[i]), EntryName(es[j]))
            \/ /\ EntryName(es[i]) = EntryName(es[j])
               /\ ~StrLess(EntryValue(es[j]), EntryValue(es[i]))

Returned == pc = "done"

Built == pc \in {"canonicalize", "sign", "url", "done", "panicked"}

Canonicalized == pc \in {"sign", "url", "done", "panicked"}

(***************************************************************************)
(* C1.  presign is total: for every request it returns a URL and never     *)
(* panics.                                                                 *)
(***************************************************************************)
C1_NeverPanics == pc # "panicked"

(***************************************************************************)
(* C2.  For every query parameter mapping canonical_query_string returns   *)
(* exactly one entry enc(key)=enc(value) per (key, value) pair of the      *)
(* mapping, enc = urlencode_param, the entries in ascending order of       *)
(* encoded key and then of encoded value, joined by '&' with no trailing   *)
(* separator.                                                              *)
(***************************************************************************)
C2_CanonicalQueryEntries ==
    Canonicalized =>
        LET r == canonical_query_string(presign_query_params)
            es == Split(r.qs, 38)
        IN  /\ ~r.panicked
            /\ EntriesSorted(es)
            /\ \A k \in DOMAIN presign_query_params :
                 \A i \in 1..Len(presign_query_params[k]) :
                    LET n == urlencode_param(k)
                        v == urlencode_param(presign_query_params[k][i])
                    IN  Cardinality({j \in 1..Len(es) : es[j] = n \o <<61>> \o v})
                          = Cardinality({j \in 1..Len(presign_query_params[k]) :
                                           presign_query_params[k][j] =
                                               presign_query_params[k][i]})
            /\ \A j \in 1..Len(es) :
                 \E k \in DOMAIN presign_query_params :
                    \E i \in 1..Len(presign_query_params[k]) :
                       es[j] = urlencode_param(k) \o <<61>>
                                 \o urlencode_param(presign_query_params[k][i])

(***************************************************************************)
(* C3.  Header canonicalization is case-insensitive and order-independent  *)
(* on input: two header maps holding the same headers and values, which    *)
(* differ in the casing of the names or in insertion order, get the same   *)
(* canonical_headers string and the same signed_headers string.            *)
(***************************************************************************)
\* no two names of the map are equal up to case
CaseDistinct(h) == Cardinality({to_lowercase(k) : k \in DOMAIN h}) = Cardinality(DOMAIN h)

\* the two maps hold the same headers and values, up to the case of the names
SameHeaders(h1, h2) ==
    /\ CaseDistinct(h1)
    /\ CaseDistinct(h2)
    /\ {<<to_lowercase(k), h1[k]>> : k \in DOMAIN h1}
         = {<<to_lowercase(k), h2[k]>> : k \in DOMAIN h2}

C3_HeadersCaseAndOrderInsensitive ==
    (hdr_prev # Null /\ hdr_cur # Null /\ SameHeaders(hdr_prev.headers, hdr_cur.headers)) =>
        /\ hdr_prev.canonical_headers = hdr_cur.canonical_headers
        /\ hdr_prev.signed_headers = hdr_cur.signed_headers

(***************************************************************************)
(* C8.  canonical_headers emits one line name:value\n per header, the      *)
(* lines in ascending order of the lowercased name, so that the names of   *)
(* the lines are the names of the signed_headers list, in the same order.  *)
(***************************************************************************)
\* the lines of a text in which every line ends with \n
Lines(text) == LET segs == Split(text, 10) IN SubSeq(segs, 1, Len(segs) - 1)

\* the names of a ';'-separated list
ListNames(list) == IF list = <<>> THEN <<>> ELSE Split(list, 59)

C8_HeaderLinesInSignedOrder ==
    hdr_cur # Null =>
        LET lines == Lines(hdr_cur.canonical_headers)
            names == [i \in 1..Len(lines) |-> BeforeFirst(lines[i], 58)]
        IN  /\ Len(lines) = Cardinality(DOMAIN hdr_cur.headers)
            /\ \A k \in DOMAIN hdr_cur.headers :
                 \E i \in 1..Len(lines) :
                    lines[i] = to_lowercase(k) \o <<58>> \o join(hdr_cur.headers[k], <<44>>)
            /\ \A i \in 1..Len(names), j \in 1..Len(names) :
                 i < j => ~StrLess(names[j], names[i])
            /\ names = ListNames(hdr_cur.signed_headers)

(***************************************************************************)
(* C9.  derive_signing_key returns                                         *)
(*   HMAC(HMAC(HMAC(HMAC("AWS4"+secret, YYYYMMDD), region), service),      *)
(*        "aws4_request")                                                  *)
(* and uses only the date of the timestamp: two calls give the same key    *)
(* exactly when they agree on the secret, the date, the region and the     *)
(* service, whatever the times of day.                                     *)
(***************************************************************************)
\* YYYYMMDD of a date whose year has four digits
DateDigits(ts) == Decimal(ts.year * 10000 + ts.month * 100 + ts.day)

SameScope(a, b) ==
    /\ a.secret_access_key = b.secret_access_key
    /\ <<a.timestamp.year, a.timestamp.month, a.timestamp.day>>
         = <<b.timestamp.year, b.timestamp.month, b.timestamp.day>>
    /\ a.region = b.region
    /\ a.service_name = b.service_name

C9_SigningKeyScoped ==
    /\ key_cur # Null =>
         key_cur.key =
            hmac(hmac(hmac(hmac(AWS4 \o key_cur.secret_access_key,
                                DateDigits(key_cur.timestamp)),
                           key_cur.region),
                      key_cur.service_name),
                 AWS4_REQUEST)
    /\ (key_cur # Null /\ key_prev # Null) =>
         ((key_cur.key = key_prev.key) <=> SameScope(key_cur, key_prev))

\* two calls on the same date at different times of day gave the same key
C9_Witness ==
    /\ key_cur # Null /\ key_prev # Null
    /\ SameScope(key_cur, key_prev)
    /\ key_cur.timestamp # key_prev.timestamp
    /\ key_cur.key = key_prev.key

(***************************************************************************)
(* C10.  urlencode_path and urlencode_param differ exactly on '/': every   *)
(* other byte gets the same output from both, itself for                   *)
(* A-Z a-z 0-9 - . _ ~ and its %XX escape otherwise; '/' is kept by        *)
(* urlencode_path and becomes %2F under urlencode_param.                   *)
(***************************************************************************)
\* A-Z a-z 0-9 - . _ ~
Unreserved ==
    (65..90) \cup (97..122) \cup (48..57) \cup {45, 46, 95, 126}

\* "0123456789ABCDEF"
HexDigits == <<48, 49, 50, 51, 52, 53, 54, 55, 56, 57, 65, 66, 67, 68, 69, 70>>

Escape(b) == <<37, HexDigits[(b \div 16) + 1], HexDigits[(b % 16) + 1]>>

C10_EncodersDifferOnSlash ==
    enc_cur # Null =>
        LET data == enc_cur.data
            pathOf(b) == IF b = 47 \/ b \in Unreserved THEN <<b>> ELSE Escape(b)
            paramOf(b) == IF b = 47 THEN <<37, 50, 70>>
                          ELSE IF b \in Unreserved THEN <<b>> ELSE Escape(b)
        IN  /\ enc_cur.path = Concat([i \in 1..Len(data) |-> pathOf(data[i])])
            /\ enc_cur.param = Concat([i \in 1..Len(data) |-> paramOf(data[i])])
            /\ (\A i \in 1..Len(data) : data[i] # 47) => enc_cur.path = enc_cur.param
            /\ (\E i \in 1..Len(data) : data[i] = 47) => enc_cur.path # enc_cur.param

\* '/' was encoded by both, together with a byte that both escape
C10_Witness ==
    /\ enc_cur # Null
    /\ enc_cur.data = <<47, 32>>
    /\ enc_cur.path = <<47, 37, 50, 48>>
    /\ enc_cur.param = <<37, 50, 70, 37, 50, 48>>

(***************************************************************************)
(* C4, as stated.  Whenever the credentials carry no session token, the    *)
(* URL presign returns has no X-Amz-Security-Token parameter at all, also  *)
(* when the request's existing query already has one.                      *)
(***************************************************************************)
C4_NoTokenParameterAtAll ==
    (Returned /\ credentials.session_token = None) =>
        \A i \in 1..Len(UrlEntries(url.text)) :
            EntryName(UrlEntries(url.text)[i]) # X_AMZ_SECURITY_TOKEN

(***************************************************************************)
(* C4, amended.  Whenever the credentials carry no session token, presign  *)
(* adds no X-Amz-Security-Token parameter of its own, with a value or      *)
(* empty: the X-Amz-Security-Token parameters of the returned URL are the  *)
(* ones of the request's existing query, so there is none when the         *)
(* existing query has none.                                                *)
(***************************************************************************)
C4_NoTokenParameterAdded ==
    (Returned /\ credentials.session_token = None) =>
        ValuesNamed(UrlEntries(url.text), X_AMZ_SECURITY_TOKEN)
            = sort(EncodeAll(CallerValues(request.url.query_pairs, X_AMZ_SECURITY_TOKEN)))

\* a URL was returned for a request with query parameters, none of them
\* X-Amz-Security-Token, signed without a session token
C4_Witness ==
    /\ Returned
    /\ credentials.session_token = None
    /\ CallerKeys # {}
    /\ X_AMZ_SECURITY_TOKEN \notin CallerKeys
    /\ ValuesNamed(UrlEntries(url.text), X_AMZ_SECURITY_TOKEN) = <<>>

(***************************************************************************)
(* C5, as stated.  The query string of the returned URL has exactly the    *)
(* parameter names of the request's existing query plus X-Amz-Algorithm,   *)
(* X-Amz-Credential, X-Amz-Date, X-Amz-Expires, X-Amz-SignedHeaders, plus  *)
(* X-Amz-Security-Token if and only if a session token is set, followed by *)
(* exactly one X-Amz-Signature parameter, which is the last entry and lies *)
(* outside the sorted canonical query string.                              *)
(***************************************************************************)
\* what C5 says of the entries before the trailing one and of the trailing one
C5_Shape ==
    /\ {EntryName(UrlCanonicalEntries[i]) : i \in 1..Len(UrlCanonicalEntries)}
         = CallerKeys \cup Generated
    /\ join(UrlCanonicalEntries, <<38>>) = cqs
    /\ EntriesSorted(UrlCanonicalEntries)
    /\ UrlLastEntry = X_AMZ_SIGNATURE \o <<61>>
    /\ url.signature = sign(k_signing, string_to_sign)

\* the number of X-Amz-Signature parameters of the returned URL
SignatureCount ==
    Cardinality({i \in 1..Len(UrlEntries(url.text)) :
                    EntryName(UrlEntries(url.text)[i]) = X_AMZ_SIGNATURE})

C5_ExactlyOneSignature ==
    Returned => (C5_Shape /\ SignatureCount = 1)

(***************************************************************************)
(* C5, amended.  As stated, except for the number of X-Amz-Signature       *)
(* parameters: presign appends one X-Amz-Signature parameter, which is the *)
(* last entry and lies outside the sorted canonical query string; every    *)
(* other X-Amz-Signature parameter of the URL is one of the request's      *)
(* existing query, kept inside the canonical query string.                 *)
(***************************************************************************)
C5_OneSignatureAppended ==
    Returned =>
        /\ C5_Shape
        /\ SignatureCount =
             1 + Len(CallerValues(request.url.query_pairs, X_AMZ_SIGNATURE))

\* a URL was returned, signed with a session token, for a request whose
\* existing query has another parameter
C5_Witness ==
    /\ Returned
    /\ credentials.session_token # None
    /\ <<97>> \in CallerKeys
    /\ SignatureCount = 1
    /\ Len(UrlCanonicalEntries) = 6 + Len(request.url.query_pairs)

(***************************************************************************)
(* C6, as stated.  If the request's existing query has one of the keys     *)
(* X-Amz-Algorithm, X-Amz-Credential, X-Amz-Date, X-Amz-Expires,           *)
(* X-Amz-SignedHeaders, X-Amz-Security-Token, build_presign_query_params   *)
(* discards every caller-supplied value of it and maps the key to the      *)
(* single generated value; every other caller key keeps all its values in  *)
(* their original order.                                                   *)
(***************************************************************************)
C6_OtherKeysKept ==
    \A k \in CallerKeys \ (AlwaysGenerated \cup {X_AMZ_SECURITY_TOKEN}) :
        /\ k \in DOMAIN presign_query_params
        /\ presign_query_params[k] = CallerValues(request.url.query_pairs, k)

C6_AllSixOverwritten ==
    Built =>
        /\ \A g \in (AlwaysGenerated \cup {X_AMZ_SECURITY_TOKEN}) \cap CallerKeys :
             /\ g \in DOMAIN presign_query_params
             /\ presign_query_params[g] = GeneratedValues(g)
             /\ Len(presign_query_params[g]) = 1
        /\ C6_OtherKeysKept

(***************************************************************************)
(* C6, amended.  As stated for the five keys that are always generated,    *)
(* and for X-Amz-Security-Token when a session token is set; without a     *)
(* session token no X-Amz-Security-Token is generated, and a caller's      *)
(* X-Amz-Security-Token keeps all its values in their original order, like *)
(* every other caller key.                                                 *)
(***************************************************************************)
C6_GeneratedOverwrite ==
    Built =>
        /\ DOMAIN presign_query_params = CallerKeys \cup Generated
        /\ \A g \in Generated :
             /\ presign_query_params[g] = GeneratedValues(g)
             /\ Len(presign_query_params[g]) = 1
        /\ \A k \in CallerKeys \ Generated :
             presign_query_params[k] = CallerValues(request.url.query_pairs, k)

\* the existing query had X-Amz-Date, which was overwritten, and another key,
\* which was kept
C6_Witness ==
    /\ Built
    /\ X_AMZ_DATE \in CallerKeys
    /\ presign_query_params[X_AMZ_DATE] = <<to_timestamp_string(params.timestamp)>>
    /\ CallerValues(request.url.query_pairs, X_AMZ_DATE)
         # presign_query_params[X_AMZ_DATE]
    /\ <<97>> \in CallerKeys
    /\ presign_query_params[<<97>>] = CallerValues(request.url.query_pairs, <<97>>)

(***************************************************************************)
(* C7.  The path of the returned URL is the original path of the request   *)
(* URL, whatever the double-encoding flag; the path in the canonical       *)
(* request is urlencode_path(original path) with double-encoding (every    *)
(* literal '%' becomes "%25", '/' is kept) and the original path without.  *)
(***************************************************************************)
RECURSIVE EscapePercents(_)
\* every '%' replaced by "%25"
EscapePercents(p) ==
    IF p = <<>> THEN <<>>
    ELSE (IF p[1] = 37 THEN <<37, 50, 53>> ELSE <<p[1]>>) \o EscapePercents(Tail(p))

\* the second line of the canonical request
CanonicalRequestPath == Split(canonical_request.text, 10)[2]

C7_PathAsymmetry ==
    Returned =>
        /\ UrlPath(url.text) = request.url.path
        /\ CanonicalRequestPath =
             (IF params.double_encode_url
                 THEN urlencode_path(request.url.path)
                 ELSE request.url.path)
        /\ (params.double_encode_url
              /\ \A i \in 1..Len(request.url.path) :
                    request.url.path[i] \in Unreserved \cup {37, 47})
             => CanonicalRequestPath = EscapePercents(request.url.path)

\* a path with a '%' was signed with double-encoding
C7_Witness ==
    /\ Returned
    /\ params.double_encode_url
    /\ 37 \in {request.url.path[i] : i \in 1..Len(request.url.path)}
    /\ CanonicalRequestPath # request.url.path
    /\ UrlPath(url.text) = request.url.path

====
